---- MODULE Spec2Model ----
(***************************************************************************)
(* Model of the twitter-mcp server: the tool dispatcher of src/index.ts,   *)
(* the zod input schemas of src/types.ts, the TwitterClient adapter of     *)
(* src/twitter-api.ts and the error mapping between them.                  *)
(*                                                                         *)
(* One invocation is followed from the CallToolRequestSchema handler       *)
(* through every await of the adapter to the response handed back to the   *)
(* protocol layer.  The remote platform is the environment: each awaited   *)
(* call is answered by a reply chosen from a finite set of payloads and    *)
(* error shapes.                                                           *)
(***************************************************************************)
EXTENDS Integers, Sequences, FiniteSets, TLC

VARIABLES
    tool,      \* request.params.name of the invocation in progress
    args,      \* request.params.arguments: [given, bag]
    locals,    \* the parameters of the adapter method the handler called
    pc,        \* the await the invocation is suspended at; "idle" and "done" otherwise
    calls,     \* remote calls issued by the invocation, in order
    replies,   \* the remote replies to those calls, in order
    thrown,    \* the error the catch of the dispatcher received, NoError if none
    resolved,  \* what the adapter method resolved to
    listing,   \* the tools of the last response to a ListTools request
    credentials,  \* the credential set the TwitterClient holds
    invocations,  \* the invocations in progress at the same time, by slot
    outcome    \* what the CallToolRequestSchema handler returned or threw

vars == <<tool, args, locals, pc, calls, replies, thrown, resolved, listing, outcome,
          credentials, invocations>>

-----------------------------------------------------------------------------
(* Bounds of the model.                                                    *)

\* how far beyond a schema limit the enumerated string lengths go
Slack == 1

\* how many invocations the transport has in progress at the same time
MaxInFlight == 2

-----------------------------------------------------------------------------
(* JavaScript values.  n is the length of a string or the value of a       *)
(* number, b is the value of a boolean or, for a string, whether it parses *)
(* as a URL.                                                               *)

Undefined == [t |-> "undefined", n |-> 0, b |-> FALSE]
Str(len)  == [t |-> "string", n |-> len, b |-> FALSE]
Url(len)  == [t |-> "string", n |-> len, b |-> TRUE]
Num(k)    == [t |-> "number", n |-> k, b |-> FALSE]
Bool(v)   == [t |-> "boolean", n |-> 0, b |-> v]

\* JavaScript truthiness, as used by `username ? ... : ...`
Truthy(v) ==
    CASE v.t = "undefined" -> FALSE
      [] v.t = "string"    -> v.n > 0
      [] v.t = "number"    -> v.n # 0
      [] v.t = "boolean"   -> v.b

Keys == {"text", "query", "count", "username", "name", "description",
         "location", "url", "private", "listId", "userId", "extra"}

EmptyBag == [k \in Keys |-> Undefined]

\* the object with exactly the properties of f
Obj(f) == [k \in Keys |-> IF k \in DOMAIN f THEN f[k] ELSE Undefined]

NoArgs == [given |-> FALSE, bag |-> EmptyBag]
Args(f) == [given |-> TRUE, bag |-> Obj(f)]

-----------------------------------------------------------------------------
(* Program constants: the limits of the zod schemas and the error codes.  *)

PostTweetMaxLen      == 280
SearchMinCount       == 10
SearchMaxCount       == 100
ProfileNameMaxLen    == 50
ProfileBioMaxLen     == 160
ProfileLocMaxLen     == 30
ProfileUrlMaxLen     == 100
ListMinCount         == 1
ListMaxCount         == 200
ListDefaultCount     == 20
ListNameMaxLen       == 25
ListDescMaxLen       == 100
RateLimitCode        == 88
TruncateLimit        == 50
TruncateKeep         == 47
ListedTweetMaxLength == 280
ListedSearchMinimum  == 10
ListedSearchMaximum  == 100
ListedCountMinimum   == 1
ListedCountMaximum   == 200
ListedCountDefault   == 20
AuthCodes            == {32, 89, 135, 215, 226}


-----------------------------------------------------------------------------
(* zod schemas.  A field schema records the type, the optional bounds,     *)
(* whether the field is optional and its default.                          *)

zstring  == [type |-> "string", hasMin |-> FALSE, min |-> 0, hasMax |-> FALSE,
             max |-> 0, url |-> FALSE, optional |-> FALSE, default |-> Undefined]
znumber  == [zstring EXCEPT !.type = "number"]
zboolean == [zstring EXCEPT !.type = "boolean"]
zmin(s, m)     == [s EXCEPT !.hasMin = TRUE, !.min = m]
zmax(s, m)     == [s EXCEPT !.hasMax = TRUE, !.max = m]
zurl(s)        == [s EXCEPT !.url = TRUE]
zoptional(s)   == [s EXCEPT !.optional = TRUE]
zdefault(s, d) == [s EXCEPT !.default = d]

\* the issues zod raises for value v under field schema s
FieldIssues(s, v) ==
    IF v = Undefined
    THEN IF s.optional \/ s.default # Undefined THEN {} ELSE {"invalid_type"}
    ELSE IF v.t # s.type THEN {"invalid_type"}
    ELSE (IF s.hasMin /\ v.n < s.min THEN {"too_small"} ELSE {})
         \cup (IF s.hasMax /\ v.n > s.max THEN {"too_big"} ELSE {})
         \cup (IF s.url /\ ~v.b THEN {"invalid_string"} ELSE {})

\* the parsed value of a field: the default stands in for an absent value
FieldOut(s, v) == IF v = Undefined THEN s.default ELSE v

\* mutant: the length limit of the tweet text is left out
PostTweetSchema_noMax ==
    [shape |-> [text |-> zstring], refine |-> FALSE]

PostTweetSchema ==
    [shape |-> [text |-> zmax(zstring, PostTweetMaxLen)], refine |-> FALSE]

\* mutant: the minimum of the search count is 1
SearchTweetsSchema_min1 ==
    [shape |-> [query |-> zstring,
                count |-> zmax(zmin(znumber, 1), SearchMaxCount)],
     refine |-> FALSE]

SearchTweetsSchema ==
    [shape |-> [query |-> zstring,
                count |-> zmax(zmin(znumber, SearchMinCount), SearchMaxCount)],
     refine |-> FALSE]

GetProfileSchema ==
    [shape |-> [username |-> zoptional(zstring)], refine |-> FALSE]

\* mutant: the refinement that asks for at least one field is left out
UpdateProfileSchema_noRefine ==
    [shape |-> [name        |-> zoptional(zmax(zstring, ProfileNameMaxLen)),
                description |-> zoptional(zmax(zstring, ProfileBioMaxLen)),
                location    |-> zoptional(zmax(zstring, ProfileLocMaxLen)),
                url         |-> zoptional(zmax(zurl(zstring), ProfileUrlMaxLen))],
     refine |-> FALSE]

UpdateProfileSchema ==
    [shape |-> [name        |-> zoptional(zmax(zstring, ProfileNameMaxLen)),
                description |-> zoptional(zmax(zstring, ProfileBioMaxLen)),
                location    |-> zoptional(zmax(zstring, ProfileLocMaxLen)),
                url         |-> zoptional(zmax(zurl(zstring), ProfileUrlMaxLen))],
     refine |-> TRUE]

FollowUserSchema ==
    [shape |-> [username |-> zstring], refine |-> FALSE]

UnfollowUserSchema ==
    [shape |-> [username |-> zstring], refine |-> FALSE]

ListFollowersSchema ==
    [shape |-> [username |-> zoptional(zstring),
                count    |-> zdefault(zmax(zmin(znumber, ListMinCount), ListMaxCount),
                                      Num(ListDefaultCount))],
     refine |-> FALSE]

ListFollowingSchema ==
    [shape |-> [username |-> zoptional(zstring),
                count    |-> zdefault(zmax(zmin(znumber, ListMinCount), ListMaxCount),
                                      Num(ListDefaultCount))],
     refine |-> FALSE]

\* mutant: the length limit of the list name is left out
CreateListSchema_noNameMax ==
    [shape |-> [name        |-> zstring,
                description |-> zoptional(zmax(zstring, ListDescMaxLen)),
                private     |-> zdefault(zboolean, Bool(FALSE))],
     refine |-> FALSE]

CreateListSchema ==
    [shape |-> [name        |-> zmax(zstring, ListNameMaxLen),
                description |-> zoptional(zmax(zstring, ListDescMaxLen)),
                private     |-> zdefault(zboolean, Bool(FALSE))],
     refine |-> FALSE]

ListInfoSchema ==
    [shape |-> [listId |-> zstring], refine |-> FALSE]

\* schema.safeParse(a): the object schema strips unknown keys, sets defaults,
\* and the refinement of UpdateProfileSchema looks at the keys of the result
safeParse(schema, a) ==
    LET shape  == schema.shape
        out    == [k \in Keys |-> IF k \in DOMAIN shape
                                  THEN FieldOut(shape[k], a.bag[k]) ELSE Undefined]
        field  == {ki \in (DOMAIN shape) \X {"invalid_type", "too_small", "too_big",
                                              "invalid_string"} :
                       ki[2] \in FieldIssues(shape[ki[1]], a.bag[ki[1]])}
        custom == IF schema.refine /\ \A k \in Keys : out[k] = Undefined
                  THEN {<<"", "custom">>} ELSE {}
        issues == IF ~a.given THEN {<<"", "invalid_type">>} ELSE field \cup custom
    IN  [success |-> issues = {}, data |-> out, issues |-> issues]

-----------------------------------------------------------------------------
(* Errors.  code 0 stands for a code that is absent or 0 and message ""    *)
(* for a message that is absent or empty: `===`, `includes` and `||` treat *)
(* the two alike.  errors is the remote error's errors list, <<>> when it  *)
(* is absent or empty (errors[0]?.code is undefined in both cases).        *)

\* new TwitterError(message, code = 0)
TwitterError(message, code) ==
    [cls |-> "TwitterError", message |-> message, code |-> code, errors |-> <<>>,
     mcp |-> "", issues |-> {}]

\* new McpError(ErrorCode.<code>, message); issues is the zod error quoted in it
McpError(code, message, issues) ==
    [cls |-> "McpError", message |-> message, code |-> 0, errors |-> <<>>,
     mcp |-> code, issues |-> issues]

\* an error thrown by the twitter-api-v2 client
ApiError(message, code, errors) ==
    [cls |-> "ApiError", message |-> message, code |-> code, errors |-> errors,
     mcp |-> "", issues |-> {}]

NoError == [cls |-> "none", message |-> "", code |-> 0, errors |-> <<>>,
            mcp |-> "", issues |-> {}]

\* the messages that contain the substring 'rate limit'
IncludesRateLimit(message) ==
    message \in {"Twitter rate limit exceeded", "You hit the rate limit"}

\* TwitterError.isRateLimit
isRateLimit(error) ==
    error.code = RateLimitCode \/ IncludesRateLimit(error.message)

\* error.errors && error.errors[0]?.code, and the same for message
FirstCode(error)    == IF Len(error.errors) > 0 THEN error.errors[1].code ELSE 0
FirstMessage(error) == IF Len(error.errors) > 0 THEN error.errors[1].message ELSE ""

\* mutant: the rate-limit code is looked for at the top level of the error only
handleTwitterError_topLevelOnly(error) ==
    IF error.code = RateLimitCode
    THEN TwitterError("Twitter rate limit exceeded", RateLimitCode)
    ELSE IF error.code \in AuthCodes \/ FirstCode(error) \in AuthCodes
    THEN TwitterError("Twitter authentication error", error.code)
    ELSE TwitterError(
             IF error.message # "" THEN error.message
             ELSE IF FirstMessage(error) # "" THEN FirstMessage(error)
             ELSE "Unknown Twitter API error",
             IF error.code # 0 THEN error.code ELSE FirstCode(error))

\* mutant: the generic branch does not read the message and code of the error
handleTwitterError_unknownOnly(error) ==
    IF error.code = RateLimitCode \/ FirstCode(error) = RateLimitCode
    THEN TwitterError("Twitter rate limit exceeded", RateLimitCode)
    ELSE IF error.code \in AuthCodes \/ FirstCode(error) \in AuthCodes
    THEN TwitterError("Twitter authentication error", error.code)
    ELSE TwitterError("Unknown Twitter API error", 0)

\* TwitterClient.handleTwitterError: the TwitterError it throws
handleTwitterError(error) ==
    IF error.code = RateLimitCode \/ FirstCode(error) = RateLimitCode
    THEN TwitterError("Twitter rate limit exceeded", RateLimitCode)
    ELSE IF error.code \in AuthCodes \/ FirstCode(error) \in AuthCodes
    THEN TwitterError("Twitter authentication error", error.code)
    ELSE TwitterError(
             IF error.message # "" THEN error.message
             ELSE IF FirstMessage(error) # "" THEN FirstMessage(error)
             ELSE "Unknown Twitter API error",
             IF error.code # 0 THEN error.code ELSE FirstCode(error))

\* a TypeError raised by the runtime (a property read on undefined)
TypeError(message) ==
    [cls |-> "TypeError", message |-> message, code |-> 0, errors |-> <<>>,
     mcp |-> "", issues |-> {}]

\* Text is a sequence of segments: a literal part of a template, or a value
\* interpolated into it
Lit(s) == [lit |-> s, val |-> Undefined]
Val(v) == [lit |-> "", val |-> v]

\* `${v}` in a template literal: undefined is written out as the word
Interp(v) == IF v = Undefined THEN Lit("undefined") ELSE Val(v)

\* what the CallToolRequestSchema handler hands to the protocol layer
NoOutcome    == [kind |-> "none", text |-> <<>>, isError |-> FALSE, error |-> NoError]
Returned(text, isError) ==
    [kind |-> "return", text |-> text, isError |-> isError, error |-> NoError]
Thrown(error) ==
    [kind |-> "throw", text |-> <<>>, isError |-> FALSE, error |-> error]

RateLimitNotice == "Rate limit exceeded. Please wait a moment before trying again."

\* mutant: an McpError is not rethrown but treated as an unexpected error
handleError_wrapsMcpError(error) ==
    IF error.cls = "TwitterError"
    THEN IF isRateLimit(error)
         THEN Returned(<<Lit(RateLimitNotice)>>, TRUE)
         ELSE Returned(<<Lit("Twitter API error: "), Lit(error.message)>>, TRUE)
    ELSE Thrown(McpError("InternalError", "An unexpected error occurred", {}))

\* TwitterServer.handleError
handleError(error) ==
    IF error.cls = "McpError" THEN Thrown(error)
    ELSE IF error.cls = "TwitterError"
    THEN IF isRateLimit(error)
         THEN Returned(<<Lit(RateLimitNotice)>>, TRUE)
         ELSE Returned(<<Lit("Twitter API error: "), Lit(error.message)>>, TRUE)
    ELSE Thrown(McpError("InternalError", "An unexpected error occurred", {}))

-----------------------------------------------------------------------------
(* Inputs of an invocation and replies of the remote platform.             *)

\* string lengths around a schema limit, and the short ones
StrLens(max) == {0, 1} \cup {l \in (max - Slack)..(max + Slack) : l >= 0}
NearLens(max) == {l \in (max - Slack)..(max + Slack) : l >= 0}

\* numbers around the limits of a count, and the ones the documentation names
Counts(min, max) ==
    {-1, 0, 5, 150, 250} \cup ((min - Slack)..(min + Slack))
                         \cup ((max - Slack)..(max + Slack)) \cup {ListDefaultCount}

Extras    == {Undefined, Str(1)}
Usernames == {Undefined, Str(0), Str(4), Num(5)}

ArgsOf(name) ==
    {NoArgs} \cup
    CASE name = "post_tweet" ->
           {Args([text |-> t, extra |-> x]) :
               t \in {Undefined, Num(5)} \cup {Str(l) : l \in StrLens(PostTweetMaxLen)},
               x \in Extras}
      [] name = "search_tweets" ->
           {Args([query |-> q, count |-> c]) :
               q \in {Undefined, Str(4), Num(5)},
               c \in {Undefined, Str(2)}
                     \cup {Num(k) : k \in Counts(SearchMinCount, SearchMaxCount)}}
      [] name = "get_profile" ->
           {Args([username |-> u, extra |-> x]) : u \in Usernames, x \in Extras}
      [] name = "update_profile" ->
           {Args([name |-> n, description |-> d, location |-> l, url |-> u, extra |-> x]) :
               n \in {Undefined, Num(5)} \cup {Str(k) : k \in StrLens(ProfileNameMaxLen)},
               d \in {Undefined} \cup {Str(k) : k \in NearLens(ProfileBioMaxLen)},
               l \in {Undefined} \cup {Str(k) : k \in NearLens(ProfileLocMaxLen)},
               u \in {Undefined, Str(20)} \cup {Url(k) : k \in NearLens(ProfileUrlMaxLen)},
               x \in Extras}
      [] name \in {"follow_user", "unfollow_user"} ->
           {Args([username |-> u, extra |-> x]) : u \in Usernames, x \in Extras}
      [] name \in {"list_followers", "list_following"} ->
           {Args([username |-> u, count |-> c]) :
               u \in Usernames,
               c \in {Undefined, Str(2)}
                     \cup {Num(k) : k \in Counts(ListMinCount, ListMaxCount)}}
      [] name = "create_list" ->
           {Args([name |-> n, description |-> d, private |-> p]) :
               n \in {Undefined, Num(5), Str(30)}
                     \cup {Str(k) : k \in StrLens(ListNameMaxLen)},
               d \in {Undefined} \cup {Str(k) : k \in NearLens(ListDescMaxLen)},
               p \in {Undefined, Bool(TRUE), Bool(FALSE), Str(4)}}
      [] name = "get_list_info" ->
           {Args([listId |-> i, extra |-> x]) :
               i \in {Undefined, Str(0), Str(4), Num(5)}, x \in Extras}
      [] OTHER ->
           {Args([extra |-> x]) : x \in Extras} \cup {Args([text |-> Str(1)])}

\* the shapes of the errors the remote client throws
RemoteMessages == {"", "Request failed", "You hit the rate limit"}
RemoteCodes    == {0, 32, 88, 215, 401}
RemoteErrorLists ==
    {<<>>, <<[code |-> 88, message |-> ""]>>, <<[code |-> 32, message |-> ""]>>,
     <<[code |-> 50, message |-> "User not found."]>>}
RemoteErrors ==
    {ApiError(m, c, e) : m \in RemoteMessages, c \in RemoteCodes, e \in RemoteErrorLists}

\* a remote reply: an error, or a payload.  present tells whether the payload
\* holds the data the adapter reads; id and following are the id and the
\* following flag of that data; users, tweets and lists are the objects in it
Ok(id, following) ==
    [ok |-> TRUE, present |-> TRUE, id |-> id, following |-> following,
     users |-> <<>>, tweets |-> <<>>, lists |-> <<>>, error |-> NoError]
Failed(error) ==
    [ok |-> FALSE, present |-> FALSE, id |-> Undefined, following |-> Undefined,
     users |-> <<>>, tweets |-> <<>>, lists |-> <<>>, error |-> error]

\* a payload without the data the adapter reads (no match, no results)
NoData == [Ok(Undefined, Undefined) EXCEPT !.present = FALSE]

\* a user object of the remote platform; public_metrics holds the two counts
RemoteUser(description, optional) ==
    [id |-> Str(8), name |-> Str(6), username |-> Str(4),
     description |-> description,
     profile_image_url |-> IF optional THEN Str(40) ELSE Undefined,
     verified |-> IF optional THEN Bool(TRUE) ELSE Undefined,
     followers_count |-> IF optional THEN Num(1200) ELSE Undefined,
     following_count |-> IF optional THEN Num(3) ELSE Undefined,
     created_at |-> IF optional THEN Str(24) ELSE Undefined]

\* a tweet object of the remote platform; public_metrics holds the four counts
RemoteTweet(optional) ==
    [id |-> Str(19), text |-> Str(12), author_id |-> Str(8),
     created_at |-> IF optional THEN Str(24) ELSE Undefined,
     retweet_count |-> IF optional THEN Num(2) ELSE Undefined,
     reply_count |-> IF optional THEN Num(1) ELSE Undefined,
     like_count |-> IF optional THEN Num(7) ELSE Undefined,
     quote_count |-> IF optional THEN Num(4) ELSE Undefined]

\* a list object of the remote platform
RemoteList(description, optional) ==
    [id |-> Str(18), name |-> Str(7), description |-> description,
     member_count |-> IF optional THEN Num(5) ELSE Undefined,
     follower_count |-> IF optional THEN Num(9) ELSE Undefined,
     private |-> IF optional THEN Bool(TRUE) ELSE Undefined,
     owner_id |-> IF optional THEN Str(8) ELSE Undefined]

\* descriptions around the truncation limit of the formatter, empty and absent
Descriptions == {Undefined, Str(0)} \cup {Str(k) : k \in NearLens(TruncateLimit)}

RemoteUsers == {RemoteUser(Undefined, FALSE)} \cup {RemoteUser(d, TRUE) : d \in Descriptions}
RemoteLists == {RemoteList(Undefined, FALSE)} \cup {RemoteList(d, TRUE) : d \in Descriptions}

Failures     == {Failed(e) : e \in RemoteErrors}
PlainReplies == {Ok(Str(8), Undefined), NoData} \cup Failures
FlagReplies  ==
    {Ok(Undefined, f) : f \in {Bool(TRUE), Bool(FALSE), Undefined}} \cup {NoData} \cup Failures

\* a single user: client.v2.userByUsername, client.v2.me, client.v1.updateAccountProfile
UserReplies ==
    {[Ok(u.id, Undefined) EXCEPT !.users = <<u>>] : u \in RemoteUsers}
        \cup {NoData} \cup Failures

\* a page of users: client.v2.followers, client.v2.following
UsersReplies ==
    {[Ok(Undefined, Undefined) EXCEPT !.users = us] :
        us \in {<<>>, <<RemoteUser(Str(20), TRUE), RemoteUser(Undefined, FALSE)>>}
               \cup {<<u>> : u \in RemoteUsers}}
        \cup {NoData} \cup Failures

\* search results with the authors in includes.users: client.v2.search
SearchReplies ==
    {[Ok(Undefined, Undefined) EXCEPT !.tweets = ts, !.users = us] :
        ts \in {<<>>, <<RemoteTweet(TRUE)>>, <<RemoteTweet(FALSE)>>,
                <<RemoteTweet(TRUE), RemoteTweet(FALSE)>>},
        us \in {<<>>, <<RemoteUser(Str(20), TRUE)>>, <<RemoteUser(Undefined, FALSE)>>}}
        \cup {NoData} \cup Failures

\* a single list: client.v2.createList, client.v2.list
ListReplies ==
    {[Ok(l.id, Undefined) EXCEPT !.lists = <<l>>] : l \in RemoteLists}
        \cup {NoData} \cup Failures

\* the lists of a user: client.v2.listsOwned
ListsReplies ==
    {[Ok(Undefined, Undefined) EXCEPT !.lists = ls] :
        ls \in {<<>>, <<RemoteList(Str(20), TRUE), RemoteList(Undefined, FALSE)>>}
               \cup {<<l>> : l \in RemoteLists}}
        \cup {NoData} \cup Failures

\* a remote call: the client method and the parameters passed to it
Call(api, params) == [api |-> api, params |-> Obj(params)]

-----------------------------------------------------------------------------
(* TwitterClient: each method up to its first await.  A method suspends at *)
(* pc with one remote call issued; Start also binds its parameters.        *)

Suspend(at, call) == [pc |-> at, call |-> call]
Start(at, call, params) == [pc |-> at, call |-> call, locals |-> Obj(params)]

Me == Call("v2.me", <<>>)
UserByUsername(username) == Call("v2.userByUsername", [username |-> username])

postTweet(text) == Start("postTweet", Call("v2.tweet", [text |-> text]), [text |-> text])

searchTweets(query, count) ==
    Start("searchTweets", Call("v2.search", [query |-> query, count |-> count]),
          [query |-> query, count |-> count])

\* `at` names the caller: the method is also the tail of followUser and unfollowUser
getUserProfile(username, at) ==
    Start(at, IF Truthy(username) THEN UserByUsername(username) ELSE Me,
          [username |-> username])

updateProfile(profileData) ==
    Start("updateProfile",
          Call("v1.updateAccountProfile",
               [name |-> profileData.name, description |-> profileData.description,
                location |-> profileData.location, url |-> profileData.url]),
          [name |-> profileData.name, description |-> profileData.description,
           location |-> profileData.location, url |-> profileData.url])

getUserIdByUsername(username, at) == Suspend(at, UserByUsername(username))

getCurrentUserId(at) == Suspend(at, Me)

followUser(username) ==
    LET step == getUserIdByUsername(username, "followUser.getUserIdByUsername")
    IN  Start(step.pc, step.call, [username |-> username])

unfollowUser(username) ==
    LET step == getUserIdByUsername(username, "unfollowUser.getUserIdByUsername")
    IN  Start(step.pc, step.call, [username |-> username])

\* the default of the parameter `count: number = 20`
CountParam(count) == IF count = Undefined THEN Num(ListDefaultCount) ELSE count

\* the default of the parameter `isPrivate: boolean = false`
PrivateParam(isPrivate) == IF isPrivate = Undefined THEN Bool(FALSE) ELSE isPrivate

getFollowers(username, count) ==
    LET step == IF Truthy(username)
                THEN getUserIdByUsername(username, "getFollowers.getUserIdByUsername")
                ELSE Suspend("getFollowers.me", Me)
    IN  Start(step.pc, step.call, [username |-> username, count |-> CountParam(count)])

getFollowing(username, count) ==
    LET step == IF Truthy(username)
                THEN getUserIdByUsername(username, "getFollowing.getUserIdByUsername")
                ELSE Suspend("getFollowing.me", Me)
    IN  Start(step.pc, step.call, [username |-> username, count |-> CountParam(count)])

createList(name, description, isPrivate) ==
    Start("createList",
          Call("v2.createList", [name |-> name, description |-> description,
                                 private |-> PrivateParam(isPrivate)]),
          [name |-> name, description |-> description,
           private |-> PrivateParam(isPrivate)])

getListInfo(listId) ==
    Start("getListInfo", Call("v2.list", [listId |-> listId]), [listId |-> listId])

getUserLists ==
    LET step == getCurrentUserId("getUserLists.getCurrentUserId")
    IN  Start(step.pc, step.call, <<>>)

-----------------------------------------------------------------------------
(* TwitterServer: the handlers up to the first await of the adapter.  A    *)
(* handler either throws or suspends in the adapter method it called.      *)

Raise(error) == [thrown |-> error, locals |-> EmptyBag, pc |-> "done", call |-> <<>>]
Enter(step)  == [thrown |-> NoError, locals |-> step.locals, pc |-> step.pc,
                 call |-> <<step.call>>]
Invalid(result)   == Raise(McpError("InvalidParams", "Invalid parameters: ", result.issues))

\* mutant: the result of the parse is not looked at
handlePostTweet_unchecked(a) ==
    LET result == safeParse(PostTweetSchema, a)
    IN  Enter(postTweet(result.data.text))

handlePostTweet(a) ==
    LET result == safeParse(PostTweetSchema, a)
    IN  IF ~result.success THEN Invalid(result)
        ELSE Enter(postTweet(result.data.text))

handleSearchTweets(a) ==
    LET result == safeParse(SearchTweetsSchema, a)
    IN  IF ~result.success THEN Invalid(result)
        ELSE Enter(searchTweets(result.data.query, result.data.count))

handleGetProfile(a) ==
    LET result == safeParse(GetProfileSchema, a)
    IN  IF ~result.success THEN Invalid(result)
        ELSE Enter(getUserProfile(result.data.username, "getUserProfile"))

handleUpdateProfile(a) ==
    LET result == safeParse(UpdateProfileSchema, a)
    IN  IF ~result.success THEN Invalid(result)
        ELSE Enter(updateProfile(result.data))

handleFollowUser(a) ==
    LET result == safeParse(FollowUserSchema, a)
    IN  IF ~result.success THEN Invalid(result)
        ELSE Enter(followUser(result.data.username))

handleUnfollowUser(a) ==
    LET result == safeParse(UnfollowUserSchema, a)
    IN  IF ~result.success THEN Invalid(result)
        ELSE Enter(unfollowUser(result.data.username))

\* mutant: the count is not passed on to the adapter
handleListFollowers_dropsCount(a) ==
    LET result == safeParse(ListFollowersSchema, a)
    IN  IF ~result.success THEN Invalid(result)
        ELSE Enter(getFollowers(result.data.username, Undefined))

handleListFollowers(a) ==
    LET result == safeParse(ListFollowersSchema, a)
    IN  IF ~result.success THEN Invalid(result)
        ELSE Enter(getFollowers(result.data.username, result.data.count))

handleListFollowing(a) ==
    LET result == safeParse(ListFollowingSchema, a)
    IN  IF ~result.success THEN Invalid(result)
        ELSE Enter(getFollowing(result.data.username, result.data.count))

handleCreateList(a) ==
    LET result == safeParse(CreateListSchema, a)
    IN  IF ~result.success THEN Invalid(result)
        ELSE Enter(createList(result.data.name, result.data.description,
                              result.data.private))

handleGetListInfo(a) ==
    LET result == safeParse(ListInfoSchema, a)
    IN  IF ~result.success THEN Invalid(result)
        ELSE Enter(getListInfo(result.data.listId))

\* no parameters are parsed for this tool
handleGetUserLists(a) == Enter(getUserLists)

\* the case labels of the switch
RegisteredTools ==
    {"post_tweet", "search_tweets", "get_profile", "update_profile", "follow_user",
     "unfollow_user", "list_followers", "list_following", "create_list",
     "get_list_info", "get_user_lists"}

\* the switch of the CallToolRequestSchema handler
Dispatch(name, a) ==
    CASE name = "post_tweet"     -> handlePostTweet(a)
      [] name = "search_tweets"  -> handleSearchTweets(a)
      [] name = "get_profile"    -> handleGetProfile(a)
      [] name = "update_profile" -> handleUpdateProfile(a)
      [] name = "follow_user"    -> handleFollowUser(a)
      [] name = "unfollow_user"  -> handleUnfollowUser(a)
      [] name = "list_followers" -> handleListFollowers(a)
      [] name = "list_following" -> handleListFollowing(a)
      [] name = "create_list"    -> handleCreateList(a)
      [] name = "get_list_info"  -> handleGetListInfo(a)
      [] name = "get_user_lists" -> handleGetUserLists(a)
      [] OTHER -> Raise(McpError("MethodNotFound", "Unknown tool: ", {}))

\* the names a client may send
ToolNames == RegisteredTools \cup {"delete_tweet", "POST_TWEET"}

-----------------------------------------------------------------------------
(* What the adapter returns: the objects it maps the remote payload to.    *)

\* `v || d`
Or(v, d) == IF Truthy(v) THEN v ELSE d

\* TwitterUser as searchTweets, getUserProfile, getFollowers and getFollowing
\* map it from a v2 user
MapUser(u) ==
    [id |-> u.id, name |-> u.name, username |-> u.username,
     description |-> u.description,
     profileImageUrl |-> u.profile_image_url,
     verified |-> Or(u.verified, Bool(FALSE)),
     followersCount |-> Or(u.followers_count, Num(0)),
     followingCount |-> Or(u.following_count, Num(0)),
     createdAt |-> Or(u.created_at, Str(0))]

\* TwitterUser as updateProfile maps it from the v1 account (id_str,
\* screen_name, profile_image_url_https, friends_count are its names there)
MapAccount(u) ==
    [id |-> u.id, name |-> u.name, username |-> u.username,
     description |-> u.description,
     profileImageUrl |-> u.profile_image_url,
     verified |-> u.verified,
     followersCount |-> u.followers_count,
     followingCount |-> u.following_count,
     createdAt |-> u.created_at]

\* Tweet as searchTweets maps it
MapTweet(t) ==
    [id |-> t.id, text |-> t.text, authorId |-> t.author_id,
     createdAt |-> t.created_at,
     retweetCount |-> Or(t.retweet_count, Num(0)),
     replyCount |-> Or(t.reply_count, Num(0)),
     likeCount |-> Or(t.like_count, Num(0)),
     quoteCount |-> Or(t.quote_count, Num(0))]

\* TwitterList as getListInfo and getUserLists map it; owner is the ownerId
\* without an owner_id in the payload
MapList(l, owner) ==
    [id |-> l.id, name |-> l.name,
     description |-> Or(l.description, Str(0)),
     memberCount |-> Or(l.member_count, Num(0)),
     followerCount |-> Or(l.follower_count, Num(0)),
     private |-> Or(l.private, Bool(FALSE)),
     ownerId |-> Or(l.owner_id, owner)]

\* TwitterList as createList maps it, ownerId from getCurrentUserId
MapCreatedList(l, ownerId) ==
    [id |-> l.id, name |-> l.name,
     description |-> Or(l.description, Str(0)),
     memberCount |-> Num(0),
     followerCount |-> Num(0),
     private |-> Or(l.private, Bool(FALSE)),
     ownerId |-> ownerId]

MapUsers(users)   == [i \in 1..Len(users) |-> MapUser(users[i])]
MapTweets(tweets) == [i \in 1..Len(tweets) |-> MapTweet(tweets[i])]

\* the value an adapter method resolves to
NoResult ==
    [returned |-> FALSE, id |-> Undefined, users |-> <<>>, tweets |-> <<>>,
     lists |-> <<>>]
IdResult(id)       == [NoResult EXCEPT !.returned = TRUE, !.id = id]
UsersResult(users) == [NoResult EXCEPT !.returned = TRUE, !.users = users]
ListsResult(lists) == [NoResult EXCEPT !.returned = TRUE, !.lists = lists]
SearchResult(tweets, users) ==
    [NoResult EXCEPT !.returned = TRUE, !.tweets = tweets, !.users = users]

-----------------------------------------------------------------------------
(* ResponseFormatter and the templates of the handlers.  A formatter       *)
(* either throws a TypeError or returns its text.  The pictographs of the  *)
(* templates are written as words in brackets.                             *)

TypeErrorMessage == "Cannot read properties of undefined"

Formatted(text) == [throws |-> FALSE, text |-> text]
Throws == [throws |-> TRUE, text |-> <<>>]

\* `${n.toLocaleString()}`
LocaleString(n) == Val(n)

\* `${new Date(s).toLocaleDateString()}`
LocaleDateString(s) == IF Truthy(s) THEN Val(Str(10)) ELSE Lit("Invalid Date")

\* s.substring(0, end)
Substring(s, end) == Str(IF s.n < end THEN s.n ELSE end)

RECURSIVE Concat(_)
Concat(parts) == IF parts = <<>> THEN <<>> ELSE Head(parts) \o Concat(Tail(parts))

\* users[tweet.authorId]; `user?.field` of a missing user is undefined
MissingUser ==
    [id |-> Undefined, name |-> Undefined, username |-> Undefined,
     description |-> Undefined, profileImageUrl |-> Undefined,
     verified |-> Undefined, followersCount |-> Undefined,
     followingCount |-> Undefined, createdAt |-> Undefined]
UserById(users, id) ==
    LET found == {i \in 1..Len(users) : users[i].id = id}
    IN  IF found = {} THEN MissingUser
        ELSE users[CHOOSE i \in found : \A j \in found : j <= i]

formatSearchResponse(query, tweets, users) ==
    LET response == <<Lit("Search results for "), Interp(query)>>
        Entry(index) ==
            LET tweet == tweets[index]
                user  == UserById(users, tweet.authorId)
            IN  <<Val(Num(index)), Lit(". @")>>
                \o (IF Truthy(user.username) THEN <<Val(user.username)>>
                    ELSE <<Lit("Unknown")>>)
                \o (IF Truthy(user.verified) THEN <<Lit("[check]")>> ELSE <<>>)
                \o <<Lit("(")>>
                \o (IF Truthy(user.name) THEN <<Val(user.name)>>
                    ELSE <<Lit("Unknown")>>)
                \o <<Lit("):"), Interp(tweet.text),
                     Lit("[retweets] "), Interp(tweet.retweetCount),
                     Lit("[likes] "), Interp(tweet.likeCount),
                     Lit("[replies] "), Interp(tweet.replyCount),
                     Lit("[link] https://twitter.com/"), Interp(user.username),
                     Lit("/status/"), Interp(tweet.id)>>
    IN  IF Len(tweets) = 0
        THEN Formatted(response \o <<Lit("No tweets found matching your query.")>>)
        ELSE Formatted(response \o Concat([i \in 1..Len(tweets) |-> Entry(i)]))

\* mutant: the bio line is written whether or not there is a bio
formatUserProfile_alwaysBio(user) ==
    IF user.followersCount = Undefined \/ user.followingCount = Undefined
    THEN Throws
    ELSE Formatted(
        <<Lit("Profile for @"), Interp(user.username)>>
        \o (IF Truthy(user.verified) THEN <<Lit("[check]")>> ELSE <<>>)
        \o <<Lit("Name: "), Interp(user.name),
             Lit("Bio: "), Interp(user.description),
             Lit("Followers: "), LocaleString(user.followersCount),
             Lit(" | Following: "), LocaleString(user.followingCount),
             Lit("Account created: "), LocaleDateString(user.createdAt),
             Lit("[link] https://twitter.com/"), Interp(user.username)>>)

formatUserProfile(user) ==
    IF user.followersCount = Undefined \/ user.followingCount = Undefined
    THEN Throws
    ELSE Formatted(
        <<Lit("Profile for @"), Interp(user.username)>>
        \o (IF Truthy(user.verified) THEN <<Lit("[check]")>> ELSE <<>>)
        \o <<Lit("Name: "), Interp(user.name)>>
        \o (IF Truthy(user.description)
            THEN <<Lit("Bio: "), Interp(user.description)>> ELSE <<>>)
        \o <<Lit("Followers: "), LocaleString(user.followersCount),
             Lit(" | Following: "), LocaleString(user.followingCount),
             Lit("Account created: "), LocaleDateString(user.createdAt),
             Lit("[link] https://twitter.com/"), Interp(user.username)>>)

\* mutant: a bio of exactly the limit is cut as well
formatUsersList_cutsAtLimit(users, listType) ==
    LET title == IF listType = "followers" THEN "Followers" ELSE "Following"
        response == <<Lit(title), Lit(" ("), Val(Num(Len(users))), Lit("):")>>
        Entry(index) ==
            LET user == users[index]
            IN  <<Val(Num(index)), Lit(". @"), Interp(user.username)>>
                \o (IF Truthy(user.verified) THEN <<Lit("[check]")>> ELSE <<>>)
                \o <<Lit("("), Interp(user.name), Lit(")")>>
                \o (IF Truthy(user.description)
                    THEN <<Lit("   ")>>
                         \o (IF user.description.n >= TruncateLimit
                             THEN <<Val(Substring(user.description, TruncateKeep)),
                                    Lit("...")>>
                             ELSE <<Val(user.description)>>)
                    ELSE <<>>)
                \o <<Lit("   Followers: "), LocaleString(user.followersCount)>>
    IN  IF Len(users) = 0
        THEN Formatted(response \o <<Lit("No "), Lit(listType), Lit(" found.")>>)
        ELSE IF \E i \in 1..Len(users) : users[i].followersCount = Undefined
        THEN Throws
        ELSE Formatted(response \o Concat([i \in 1..Len(users) |-> Entry(i)]))

formatUsersList(users, listType) ==
    LET title == IF listType = "followers" THEN "Followers" ELSE "Following"
        response == <<Lit(title), Lit(" ("), Val(Num(Len(users))), Lit("):")>>
        Entry(index) ==
            LET user == users[index]
            IN  <<Val(Num(index)), Lit(". @"), Interp(user.username)>>
                \o (IF Truthy(user.verified) THEN <<Lit("[check]")>> ELSE <<>>)
                \o <<Lit("("), Interp(user.name), Lit(")")>>
                \o (IF Truthy(user.description)
                    THEN <<Lit("   ")>>
                         \o (IF user.description.n > TruncateLimit
                             THEN <<Val(Substring(user.description, TruncateKeep)),
                                    Lit("...")>>
                             ELSE <<Val(user.description)>>)
                    ELSE <<>>)
                \o <<Lit("   Followers: "), LocaleString(user.followersCount)>>
    IN  IF Len(users) = 0
        THEN Formatted(response \o <<Lit("No "), Lit(listType), Lit(" found.")>>)
        ELSE IF \E i \in 1..Len(users) : users[i].followersCount = Undefined
        THEN Throws
        ELSE Formatted(response \o Concat([i \in 1..Len(users) |-> Entry(i)]))

formatLists(lists) ==
    LET response == <<Lit("Twitter Lists ("), Val(Num(Len(lists))), Lit("):")>>
        Entry(index) ==
            LET list == lists[index]
            IN  <<Val(Num(index)), Lit(". "), Interp(list.name)>>
                \o (IF Truthy(list.private) THEN <<Lit("[lock]")>> ELSE <<>>)
                \o (IF Truthy(list.description)
                    THEN <<Lit("   "), Interp(list.description)>> ELSE <<>>)
                \o <<Lit("   Members: "), LocaleString(list.memberCount),
                     Lit(" | Followers: "), LocaleString(list.followerCount)>>
    IN  IF Len(lists) = 0
        THEN Formatted(response \o <<Lit("No lists found.")>>)
        ELSE IF \E i \in 1..Len(lists) :
                    \/ lists[i].memberCount = Undefined
                    \/ lists[i].followerCount = Undefined
        THEN Throws
        ELSE Formatted(response \o Concat([i \in 1..Len(lists) |-> Entry(i)]))

formatListInfo(list) ==
    IF list.memberCount = Undefined \/ list.followerCount = Undefined
    THEN Throws
    ELSE Formatted(
        <<Lit("List: "), Interp(list.name)>>
        \o (IF Truthy(list.private) THEN <<Lit("[lock]")>> ELSE <<>>)
        \o (IF Truthy(list.description)
            THEN <<Lit("Description: "), Interp(list.description)>> ELSE <<>>)
        \o <<Lit("Privacy: "),
             Lit(IF Truthy(list.private) THEN "Private" ELSE "Public"),
             Lit("Members: "), LocaleString(list.memberCount),
             Lit("Followers: "), LocaleString(list.followerCount),
             Lit("[link] https://twitter.com/i/lists/"), Interp(list.id)>>)

\* a template of a handler that ends with the text of a formatter
Before(prefix, formatted) ==
    IF formatted.throws THEN Throws ELSE Formatted(prefix \o formatted.text)

PostTweetText(tweet) ==
    Formatted(<<Lit("Tweet posted successfully!"),
                Lit("URL: https://twitter.com/status/"), Interp(tweet.id)>>)
UpdateProfileText(updatedProfile) ==
    Before(<<Lit("Profile updated successfully!")>>, formatUserProfile(updatedProfile))
FollowText(user) ==
    Before(<<Lit("Successfully followed @"), Interp(user.username), Lit("!")>>,
           formatUserProfile(user))
UnfollowText(user) ==
    Before(<<Lit("Successfully unfollowed @"), Interp(user.username), Lit("!")>>,
           formatUserProfile(user))
CreateListText(list) ==
    Before(<<Lit("List "), Interp(list.name), Lit(" created successfully!")>>,
           formatListInfo(list))

-----------------------------------------------------------------------------
(* The tools of the ListToolsRequestSchema handler: name and inputSchema   *)
(* (properties with their JSON Schema keywords, required).                 *)

jstring ==
    [type |-> "string", hasMaxLength |-> FALSE, maxLength |-> 0,
     hasMinimum |-> FALSE, minimum |-> 0, hasMaximum |-> FALSE, maximum |-> 0,
     default |-> Undefined]
jnumber  == [jstring EXCEPT !.type = "number"]
jboolean == [jstring EXCEPT !.type = "boolean"]
jmaxLength(p, m) == [p EXCEPT !.hasMaxLength = TRUE, !.maxLength = m]
jminimum(p, m)   == [p EXCEPT !.hasMinimum = TRUE, !.minimum = m]
jmaximum(p, m)   == [p EXCEPT !.hasMaximum = TRUE, !.maximum = m]
jdefault(p, d)   == [p EXCEPT !.default = d]

\* properties holds the listed properties, the other keys are not listed
Tool(name, properties, required) ==
    [name |-> name, properties |-> properties, required |-> required]

PostTweetTool ==
    Tool("post_tweet", [text |-> jmaxLength(jstring, ListedTweetMaxLength)], {"text"})
SearchTweetsTool ==
    Tool("search_tweets",
         [query |-> jstring,
          count |-> jmaximum(jminimum(jnumber, ListedSearchMinimum), ListedSearchMaximum)],
         {"query", "count"})
GetProfileTool == Tool("get_profile", [username |-> jstring], {})
UpdateProfileTool ==
    Tool("update_profile",
         [name |-> jstring, description |-> jstring, location |-> jstring,
          url |-> jstring],
         {})
FollowUserTool   == Tool("follow_user", [username |-> jstring], {"username"})
UnfollowUserTool == Tool("unfollow_user", [username |-> jstring], {"username"})
ListFollowersTool ==
    Tool("list_followers",
         [username |-> jstring,
          count |-> jdefault(jmaximum(jminimum(jnumber, ListedCountMinimum),
                                      ListedCountMaximum),
                             Num(ListedCountDefault))],
         {})
ListFollowingTool ==
    Tool("list_following",
         [username |-> jstring,
          count |-> jdefault(jmaximum(jminimum(jnumber, ListedCountMinimum),
                                      ListedCountMaximum),
                             Num(ListedCountDefault))],
         {})
CreateListTool ==
    Tool("create_list",
         [name |-> jstring, description |-> jstring, private |-> jboolean],
         {"name"})
GetListInfoTool  == Tool("get_list_info", [listId |-> jstring], {"listId"})
GetUserListsTool == Tool("get_user_lists", <<>>, {})

\* mutant: get_user_lists is not listed
ListedTools_withoutGetUserLists ==
    <<PostTweetTool, SearchTweetsTool, GetProfileTool, UpdateProfileTool,
      FollowUserTool, UnfollowUserTool, ListFollowersTool, ListFollowingTool,
      CreateListTool, GetListInfoTool>>

\* the tools array of the response
ListedTools ==
    <<PostTweetTool, SearchTweetsTool, GetProfileTool, UpdateProfileTool,
      FollowUserTool, UnfollowUserTool, ListFollowersTool, ListFollowingTool,
      CreateListTool, GetListInfoTool, GetUserListsTool>>

-----------------------------------------------------------------------------
(* Invocations in progress at the same time.  The transport may start a    *)
(* handler while others are suspended at an await; each handler keeps its  *)
(* parameters and locals in its own frames, the TwitterServer and the      *)
(* TwitterClient hold the client and its credentials only.                 *)

\* the credential set the constructor hands to the remote client
Credentials ==
    [appKey |-> "apiKey", appSecret |-> "apiSecretKey",
     accessToken |-> "accessToken", accessSecret |-> "accessTokenSecret"]

\* the error a try block sees for reply r: the rejection of the call, or the
\* TypeError of reading a property of the missing data
Rejection(r) == IF ~r.ok THEN r.error ELSE TypeError(TypeErrorMessage)

\* the reply lets the method read the data it needs
Usable(r) == r.ok /\ r.present

\* the handler frames of one invocation
Idle ==
    [tool |-> "", args |-> NoArgs, locals |-> EmptyBag, pc |-> "idle",
     calls |-> <<>>, replies |-> <<>>, thrown |-> NoError, resolved |-> NoResult,
     outcome |-> NoOutcome]

\* CallToolRequestSchema handler to the first await of the adapter
Begun(name, a) ==
    LET step == Dispatch(name, a)
    IN  [tool |-> name, args |-> a, locals |-> step.locals, pc |-> step.pc,
         calls |-> step.call, replies |-> <<>>, thrown |-> step.thrown,
         resolved |-> NoResult,
         outcome |-> IF step.thrown = NoError THEN NoOutcome
                     ELSE handleError(step.thrown)]

Ended(inv, o, t, res) ==
    [inv EXCEPT !.pc = "done", !.outcome = o, !.thrown = t, !.resolved = res]
Going(inv, step) ==
    [inv EXCEPT !.pc = step.pc, !.calls = Append(@, step.call)]
EndCaught(inv, error) ==
    LET e == handleTwitterError(error)
    IN  Ended(inv, handleError(e), e, NoResult)
EndCaughtTwice(inv, error) ==
    LET e == handleTwitterError(handleTwitterError(error))
    IN  Ended(inv, handleError(e), e, NoResult)
EndResolved(inv, res, formatted) ==
    IF formatted.throws
    THEN Ended(inv, handleError(TypeError(TypeErrorMessage)),
               TypeError(TypeErrorMessage), res)
    ELSE Ended(inv, Returned(formatted.text, FALSE), NoError, res)

\* the replies the remote platform may give to the call awaited at pc
RepliesAt(at) ==
    CASE at \in {"getUserProfile", "followUser.getUserProfile",
                 "unfollowUser.getUserProfile"} -> UserReplies
      [] at = "updateProfile" -> UserReplies \ {NoData}
      [] at = "searchTweets" -> SearchReplies
      [] at \in {"followUser.follow", "unfollowUser.unfollow"} -> FlagReplies
      [] at \in {"getFollowers.followers", "getFollowing.following"} -> UsersReplies
      [] at \in {"createList", "getListInfo"} -> ListReplies
      [] at = "getUserLists.listsOwned" -> ListsReplies
      [] OTHER -> PlainReplies

\* the page call of getFollowers and getFollowing, once the id is known
PageCall(at, id, count) ==
    IF at \in {"getFollowers.getUserIdByUsername", "getFollowers.me"}
    THEN Suspend("getFollowers.followers",
                 Call("v2.followers", [userId |-> id, count |-> count]))
    ELSE Suspend("getFollowing.following",
                 Call("v2.following", [userId |-> id, count |-> count]))

\* an invocation suspended at an await goes on with reply r, to its next await
\* or to its end
Awaited(inv, r) ==
    LET i  == [inv EXCEPT !.replies = Append(@, r)]
        at == inv.pc
    IN  IF ~Usable(r) /\ ~(at = "updateProfile" /\ r.ok)
        THEN IF at \in {"followUser.getUserIdByUsername",
                        "unfollowUser.getUserIdByUsername",
                        "getFollowers.getUserIdByUsername",
                        "getFollowing.getUserIdByUsername",
                        "createList.getCurrentUserId",
                        "getUserLists.getCurrentUserId"}
             THEN EndCaughtTwice(i, Rejection(r))
             ELSE EndCaught(i, Rejection(r))
        ELSE
        CASE at = "postTweet" ->
               EndResolved(i, IdResult(r.id), PostTweetText(IdResult(r.id)))
          [] at = "searchTweets" ->
               LET tweets == MapTweets(r.tweets)
                   users  == MapUsers(r.users)
               IN  EndResolved(i, SearchResult(tweets, users),
                               formatSearchResponse(inv.locals.query, tweets, users))
          [] at = "getUserProfile" ->
               EndResolved(i, UsersResult(<<MapUser(r.users[1])>>),
                           formatUserProfile(MapUser(r.users[1])))
          [] at = "followUser.getUserProfile" ->
               EndResolved(i, UsersResult(<<MapUser(r.users[1])>>),
                           FollowText(MapUser(r.users[1])))
          [] at = "unfollowUser.getUserProfile" ->
               EndResolved(i, UsersResult(<<MapUser(r.users[1])>>),
                           UnfollowText(MapUser(r.users[1])))
          [] at = "updateProfile" ->
               EndResolved(i, UsersResult(<<MapAccount(r.users[1])>>),
                           UpdateProfileText(MapAccount(r.users[1])))
          [] at = "followUser.getUserIdByUsername" ->
               Going(i, Suspend("followUser.follow",
                                Call("v2.follow", [userId |-> r.id])))
          [] at = "unfollowUser.getUserIdByUsername" ->
               Going(i, Suspend("unfollowUser.unfollow",
                                Call("v2.unfollow", [userId |-> r.id])))
          [] at \in {"getFollowers.getUserIdByUsername", "getFollowing.getUserIdByUsername",
                     "getFollowers.me", "getFollowing.me"} ->
               Going(i, PageCall(at, r.id, inv.locals.count))
          [] at = "followUser.follow" ->
               IF ~Truthy(r.following)
               THEN EndCaught(i, TwitterError("Failed to follow user", 0))
               ELSE Going(i, getUserProfile(inv.locals.username,
                                            "followUser.getUserProfile"))
          [] at = "unfollowUser.unfollow" ->
               IF ~Truthy(r.following)
               THEN Going(i, getUserProfile(inv.locals.username,
                                            "unfollowUser.getUserProfile"))
               ELSE EndCaught(i, TwitterError("Failed to unfollow user", 0))
          [] at = "getFollowers.followers" ->
               EndResolved(i, UsersResult(MapUsers(r.users)),
                           formatUsersList(MapUsers(r.users), "followers"))
          [] at = "getFollowing.following" ->
               EndResolved(i, UsersResult(MapUsers(r.users)),
                           formatUsersList(MapUsers(r.users), "following"))
          [] at = "createList" ->
               Going(i, getCurrentUserId("createList.getCurrentUserId"))
          [] at = "createList.getCurrentUserId" ->
               LET list == MapCreatedList(inv.replies[1].lists[1], r.id)
               IN  EndResolved(i, ListsResult(<<list>>), CreateListText(list))
          [] at = "getUserLists.getCurrentUserId" ->
               Going(i, Suspend("getUserLists.listsOwned",
                                Call("v2.listsOwned", [userId |-> r.id])))
          [] at = "getListInfo" ->
               EndResolved(i, ListsResult(<<MapList(r.lists[1], Str(0))>>),
                           formatListInfo(MapList(r.lists[1], Str(0))))
          [] at = "getUserLists.listsOwned" ->
               LET lists == [k \in 1..Len(r.lists) |->
                                MapList(r.lists[k], inv.replies[1].id)]
               IN  EndResolved(i, ListsResult(lists), formatLists(lists))

-----------------------------------------------------------------------------
(* The state machine.                                                      *)

Init ==
    /\ tool = ""
    /\ args = NoArgs
    /\ locals = EmptyBag
    /\ pc = "idle"
    /\ calls = <<>>
    /\ replies = <<>>
    /\ thrown = NoError
    /\ resolved = NoResult
    /\ listing = <<>>
    /\ outcome = NoOutcome
    /\ credentials = Credentials
    /\ invocations = [slot \in 1..MaxInFlight |-> Idle]

\* the awaited call is answered by r
Reply(r) == replies' = Append(replies, r)

\* the handler is left: the adapter resolved to res or the dispatcher caught t,
\* and o goes to the protocol layer
Finish(o, t, res) ==
    /\ pc' = "done"
    /\ outcome' = o
    /\ thrown' = t
    /\ resolved' = res
    /\ UNCHANGED <<tool, args, locals, calls, listing, credentials, invocations>>

\* the adapter goes on to its next remote call
Then(step) ==
    /\ pc' = step.pc
    /\ calls' = Append(calls, step.call)
    /\ UNCHANGED <<tool, args, locals, thrown, resolved, listing, outcome,
                   credentials, invocations>>

\* mutant: the dispatcher lets the error of the adapter through
Caught_propagates(error) ==
    LET e == handleTwitterError(error)
    IN  Finish(Thrown(e), e, NoResult)

\* the catch of an adapter method, then the catch of the dispatcher
Caught(error) ==
    LET e == handleTwitterError(error)
    IN  Finish(handleError(e), e, NoResult)

\* the catch of a helper, then the catch of the method that awaits the helper,
\* then the catch of the dispatcher
CaughtTwice(error) ==
    LET e == handleTwitterError(handleTwitterError(error))
    IN  Finish(handleError(e), e, NoResult)

\* the adapter method resolved to res and the handler built its response
Resolved(res, formatted) ==
    IF formatted.throws
    THEN Finish(handleError(TypeError(TypeErrorMessage)),
                TypeError(TypeErrorMessage), res)
    ELSE Finish(Returned(formatted.text, FALSE), NoError, res)

\* CallToolRequestSchema handler: the switch, the handler and the adapter method
\* to its first await; a throw on the way is mapped by handleError
CallTool ==
    /\ pc = "idle"
    /\ \E name \in ToolNames :
         \E a \in ArgsOf(name) :
            LET step == Dispatch(name, a)
            IN  /\ tool' = name
                /\ args' = a
                /\ locals' = step.locals
                /\ pc' = step.pc
                /\ calls' = step.call
                /\ replies' = <<>>
                /\ thrown' = step.thrown
                /\ resolved' = NoResult
                /\ outcome' = IF step.thrown = NoError THEN NoOutcome
                              ELSE handleError(step.thrown)
                /\ UNCHANGED <<listing, credentials, invocations>>

\* ListToolsRequestSchema handler: the response holds the tools array
ListTools ==
    /\ pc = "idle"
    /\ listing' = ListedTools
    /\ UNCHANGED <<tool, args, locals, pc, calls, replies, thrown, resolved, outcome,
                   credentials, invocations>>

\* mutant: a failed client.v2.tweet is tried once more
PostTweetReply_retry ==
    /\ pc = "postTweet"
    /\ \E r \in PlainReplies :
         /\ Reply(r)
         /\ IF Usable(r)
            THEN Resolved(IdResult(r.id), PostTweetText(IdResult(r.id)))
            ELSE IF Len(calls) = 1
            THEN Then(Suspend("postTweet", calls[1]))
            ELSE Caught(Rejection(r))

\* postTweet after client.v2.tweet
PostTweetReply ==
    /\ pc = "postTweet"
    /\ \E r \in PlainReplies :
         /\ Reply(r)
         /\ IF Usable(r)
            THEN Resolved(IdResult(r.id), PostTweetText(IdResult(r.id)))
            ELSE Caught(Rejection(r))

\* searchTweets after client.v2.search
SearchTweetsReply ==
    /\ pc = "searchTweets"
    /\ \E r \in SearchReplies :
         /\ Reply(r)
         /\ IF Usable(r)
            THEN LET tweets == MapTweets(r.tweets)
                     users  == MapUsers(r.users)
                 IN  Resolved(SearchResult(tweets, users),
                              formatSearchResponse(locals.query, tweets, users))
            ELSE Caught(Rejection(r))

\* getUserProfile after client.v2.userByUsername or client.v2.me; as the tail of
\* followUser and unfollowUser its promise is returned without await, so only
\* its own catch sees a failure
GetUserProfileReply ==
    /\ pc \in {"getUserProfile", "followUser.getUserProfile", "unfollowUser.getUserProfile"}
    /\ \E r \in UserReplies :
         /\ Reply(r)
         /\ IF Usable(r)
            THEN LET user == MapUser(r.users[1])
                 IN  Resolved(UsersResult(<<user>>),
                              CASE pc = "getUserProfile" -> formatUserProfile(user)
                                [] pc = "followUser.getUserProfile" -> FollowText(user)
                                [] pc = "unfollowUser.getUserProfile" -> UnfollowText(user))
            ELSE Caught(Rejection(r))

\* updateProfile after client.v1.updateAccountProfile, which resolves to the
\* account itself
UpdateProfileReply ==
    /\ pc = "updateProfile"
    /\ \E r \in UserReplies \ {NoData} :
         /\ Reply(r)
         /\ IF r.ok
            THEN LET updatedProfile == MapAccount(r.users[1])
                 IN  Resolved(UsersResult(<<updatedProfile>>),
                              UpdateProfileText(updatedProfile))
            ELSE Caught(r.error)

\* getUserIdByUsername after client.v2.userByUsername, and the call its caller
\* makes with the id
GetUserIdByUsernameReply ==
    /\ pc \in {"followUser.getUserIdByUsername", "unfollowUser.getUserIdByUsername",
               "getFollowers.getUserIdByUsername", "getFollowing.getUserIdByUsername"}
    /\ \E r \in PlainReplies :
         /\ Reply(r)
         /\ IF Usable(r)
            THEN Then(CASE pc = "followUser.getUserIdByUsername" ->
                             Suspend("followUser.follow",
                                     Call("v2.follow", [userId |-> r.id]))
                        [] pc = "unfollowUser.getUserIdByUsername" ->
                             Suspend("unfollowUser.unfollow",
                                     Call("v2.unfollow", [userId |-> r.id]))
                        [] pc = "getFollowers.getUserIdByUsername" ->
                             Suspend("getFollowers.followers",
                                     Call("v2.followers",
                                          [userId |-> r.id,
                                           count |-> locals.count]))
                        [] pc = "getFollowing.getUserIdByUsername" ->
                             Suspend("getFollowing.following",
                                     Call("v2.following",
                                          [userId |-> r.id,
                                           count |-> locals.count])))
            ELSE CaughtTwice(Rejection(r))

\* mutant: the following flag of the follow reply is not looked at
FollowReply_unchecked ==
    /\ pc = "followUser.follow"
    /\ \E r \in FlagReplies :
         /\ Reply(r)
         /\ IF ~Usable(r) THEN Caught(Rejection(r))
            ELSE Then(getUserProfile(locals.username, "followUser.getUserProfile"))

\* followUser after client.v2.follow
FollowReply ==
    /\ pc = "followUser.follow"
    /\ \E r \in FlagReplies :
         /\ Reply(r)
         /\ IF ~Usable(r) THEN Caught(Rejection(r))
            ELSE IF ~Truthy(r.following)
            THEN Caught(TwitterError("Failed to follow user", 0))
            ELSE Then(getUserProfile(locals.username, "followUser.getUserProfile"))

\* mutant: the branches on the following flag are swapped
UnfollowReply_inverted ==
    /\ pc = "unfollowUser.unfollow"
    /\ \E r \in FlagReplies :
         /\ Reply(r)
         /\ IF ~Usable(r) THEN Caught(Rejection(r))
            ELSE IF Truthy(r.following)
            THEN Then(getUserProfile(locals.username, "unfollowUser.getUserProfile"))
            ELSE Caught(TwitterError("Failed to unfollow user", 0))

\* unfollowUser after client.v2.unfollow
UnfollowReply ==
    /\ pc = "unfollowUser.unfollow"
    /\ \E r \in FlagReplies :
         /\ Reply(r)
         /\ IF ~Usable(r) THEN Caught(Rejection(r))
            ELSE IF ~Truthy(r.following)
            THEN Then(getUserProfile(locals.username, "unfollowUser.getUserProfile"))
            ELSE Caught(TwitterError("Failed to unfollow user", 0))

\* getFollowers and getFollowing after client.v2.me
MeReply ==
    /\ pc \in {"getFollowers.me", "getFollowing.me"}
    /\ \E r \in PlainReplies :
         /\ Reply(r)
         /\ IF Usable(r)
            THEN Then(IF pc = "getFollowers.me"
                      THEN Suspend("getFollowers.followers",
                                   Call("v2.followers",
                                        [userId |-> r.id,
                                         count |-> locals.count]))
                      ELSE Suspend("getFollowing.following",
                                   Call("v2.following",
                                        [userId |-> r.id,
                                         count |-> locals.count])))
            ELSE Caught(Rejection(r))

\* getFollowers after client.v2.followers
FollowersReply ==
    /\ pc = "getFollowers.followers"
    /\ \E r \in UsersReplies :
         /\ Reply(r)
         /\ IF Usable(r)
            THEN LET followers == MapUsers(r.users)
                 IN  Resolved(UsersResult(followers),
                              formatUsersList(followers, "followers"))
            ELSE Caught(Rejection(r))

\* getFollowing after client.v2.following
FollowingReply ==
    /\ pc = "getFollowing.following"
    /\ \E r \in UsersReplies :
         /\ Reply(r)
         /\ IF Usable(r)
            THEN LET following == MapUsers(r.users)
                 IN  Resolved(UsersResult(following),
                              formatUsersList(following, "following"))
            ELSE Caught(Rejection(r))

\* mutant: the list is returned without asking for the current user
CreateListReply_ownerUnknown ==
    /\ pc = "createList"
    /\ \E r \in ListReplies :
         /\ Reply(r)
         /\ IF Usable(r)
            THEN LET list == MapCreatedList(r.lists[1], Str(0))
                 IN  Resolved(ListsResult(<<list>>), CreateListText(list))
            ELSE Caught(Rejection(r))

\* createList after client.v2.createList: the fields of the list are read, then
\* getCurrentUserId is awaited for the ownerId
CreateListReply ==
    /\ pc = "createList"
    /\ \E r \in ListReplies :
         /\ Reply(r)
         /\ IF Usable(r) THEN Then(getCurrentUserId("createList.getCurrentUserId"))
            ELSE Caught(Rejection(r))

\* getCurrentUserId after client.v2.me, and what its caller does with the id
GetCurrentUserIdReply ==
    /\ pc \in {"createList.getCurrentUserId", "getUserLists.getCurrentUserId"}
    /\ \E r \in PlainReplies :
         /\ Reply(r)
         /\ IF ~Usable(r) THEN CaughtTwice(Rejection(r))
            ELSE IF pc = "createList.getCurrentUserId"
            THEN LET list == MapCreatedList(replies[1].lists[1], r.id)
                 IN  Resolved(ListsResult(<<list>>), CreateListText(list))
            ELSE Then(Suspend("getUserLists.listsOwned",
                              Call("v2.listsOwned", [userId |-> r.id])))

\* getListInfo after client.v2.list
GetListInfoReply ==
    /\ pc = "getListInfo"
    /\ \E r \in ListReplies :
         /\ Reply(r)
         /\ IF Usable(r)
            THEN LET list == MapList(r.lists[1], Str(0))
                 IN  Resolved(ListsResult(<<list>>), formatListInfo(list))
            ELSE Caught(Rejection(r))

\* getUserLists after client.v2.listsOwned; userId is what getCurrentUserId gave
ListsOwnedReply ==
    /\ pc = "getUserLists.listsOwned"
    /\ \E r \in ListsReplies :
         /\ Reply(r)
         /\ IF Usable(r)
            THEN LET userId == replies[1].id
                     lists  == [i \in 1..Len(r.lists) |-> MapList(r.lists[i], userId)]
                 IN  Resolved(ListsResult(lists), formatLists(lists))
            ELSE Caught(Rejection(r))

\* the response has gone to the client; the server waits for the next request
Respond ==
    /\ pc = "done"
    /\ tool' = ""
    /\ args' = NoArgs
    /\ locals' = EmptyBag
    /\ pc' = "idle"
    /\ calls' = <<>>
    /\ replies' = <<>>
    /\ thrown' = NoError
    /\ resolved' = NoResult
    /\ outcome' = NoOutcome
    /\ UNCHANGED <<listing, credentials, invocations>>

Next ==
    \/ CallTool
    \/ ListTools
    \/ PostTweetReply
    \/ SearchTweetsReply
    \/ GetUserProfileReply
    \/ UpdateProfileReply
    \/ GetUserIdByUsernameReply
    \/ FollowReply
    \/ UnfollowReply
    \/ MeReply
    \/ FollowersReply
    \/ FollowingReply
    \/ CreateListReply
    \/ GetCurrentUserIdReply
    \/ GetListInfoReply
    \/ ListsOwnedReply
    \/ Respond

Spec == Init /\ [][Next]_vars

-----------------------------------------------------------------------------
(* The server with several invocations in progress: the transport starts   *)
(* a handler in a free slot at any time, and the remote platform answers   *)
(* the awaited calls in any order.                                         *)

\* requests sent at the same time: they differ in tool and in handle
ConcurrentRequests ==
    {[name |-> "follow_user", args |-> Args([username |-> Str(4)])],
     [name |-> "unfollow_user", args |-> Args([username |-> Str(5)])],
     [name |-> "list_followers", args |-> Args([username |-> Str(6), count |-> Num(5)])],
     [name |-> "create_list", args |-> Args([name |-> Str(3)])]}

\* the replies taken for them: a rate limit, or a payload without descriptions
ConcurrentReplies(at) ==
    {r \in RepliesAt(at) :
        /\ ~r.ok => r.error = ApiError("", RateLimitCode, <<>>)
        /\ \A k \in 1..Len(r.users) : r.users[k].description = Undefined
        /\ \A k \in 1..Len(r.lists) : r.lists[k].description = Undefined}

\* the transport delivers a request and its handler runs to its first await
Begin(slot) ==
    /\ invocations[slot].pc = "idle"
    /\ \E request \in ConcurrentRequests :
         invocations' =
             [invocations EXCEPT ![slot] = Begun(request.name, request.args)]
    /\ UNCHANGED <<tool, args, locals, pc, calls, replies, thrown, resolved, listing,
                   outcome, credentials>>

\* mutant: the adapter keeps the parameters of the method in a field of the
\* client, which the invocation started last has overwritten
Answer_sharedParameters(slot) ==
    /\ invocations[slot].pc \notin {"idle", "done"}
    /\ \E r \in ConcurrentReplies(invocations[slot].pc) :
         LET others == {o \in 1..MaxInFlight :
                          o # slot /\ invocations[o].pc \notin {"idle", "done"}}
             field  == IF others = {} THEN invocations[slot].locals
                       ELSE invocations[CHOOSE o \in others : TRUE].locals
         IN  invocations' =
                 [invocations EXCEPT
                     ![slot] = Awaited([invocations[slot] EXCEPT !.locals = field], r)]
    /\ UNCHANGED <<tool, args, locals, pc, calls, replies, thrown, resolved, listing,
                   outcome, credentials>>

\* the remote platform answers the call the invocation of the slot awaits
Answer(slot) ==
    /\ invocations[slot].pc \notin {"idle", "done"}
    /\ \E r \in ConcurrentReplies(invocations[slot].pc) :
         invocations' = [invocations EXCEPT ![slot] = Awaited(invocations[slot], r)]
    /\ UNCHANGED <<tool, args, locals, pc, calls, replies, thrown, resolved, listing,
                   outcome, credentials>>

\* the response of the slot has gone to the client
Return(slot) ==
    /\ invocations[slot].pc = "done"
    /\ invocations' = [invocations EXCEPT ![slot] = Idle]
    /\ UNCHANGED <<tool, args, locals, pc, calls, replies, thrown, resolved, listing,
                   outcome, credentials>>

ConcurrentNext ==
    \E slot \in 1..MaxInFlight :
        \/ Begin(slot)
        \/ Answer(slot)
        \/ Return(slot)

Concurrent == Init /\ [][ConcurrentNext]_vars

-----------------------------------------------------------------------------
(* Properties.                                                             *)

\* an invocation has been dispatched
Started == pc # "idle"

\* the handler called its adapter method: every method of TwitterClient issues
\* a remote call before anything else
ReachedAdapter == calls # <<>>

\* the invocation ended with McpError(code) thrown and no remote call issued
RejectedWith(code) ==
    /\ pc = "done"
    /\ outcome.kind = "throw"
    /\ outcome.error.cls = "McpError"
    /\ outcome.error.mcp = code
    /\ calls = <<>>

\* the invocation returned a response that is not flagged as an error
Succeeded == pc = "done" /\ outcome.kind = "return" /\ ~outcome.isError

\* the invocation returned a response flagged as an error
ReportedFailure == pc = "done" /\ outcome.kind = "return" /\ outcome.isError

\* segment occurs in the text of the response
Shows(segment) == \E i \in 1..Len(outcome.text) : outcome.text[i] = Lit(segment)

Supplied(v)         == v # Undefined
StringUpTo(v, max)  == v.t = "string" /\ v.n <= max
TooLong(v, max)     == v.t = "string" /\ v.n > max
NumberIn(v, lo, hi) == v.t = "number" /\ lo <= v.n /\ v.n <= hi
OutOfRange(v, lo, hi) == v.t = "number" /\ (v.n < lo \/ v.n > hi)

\* the argument bag misses a required field, or holds an out-of-range number or
\* an over-length string, by the limits of the tool's input schema
Violates(name, bag) ==
    CASE name = "post_tweet" ->
           ~Supplied(bag.text) \/ TooLong(bag.text, 280)
      [] name = "search_tweets" ->
           ~Supplied(bag.query) \/ ~Supplied(bag.count) \/ OutOfRange(bag.count, 10, 100)
      [] name = "update_profile" ->
           \/ TooLong(bag.name, 50) \/ TooLong(bag.description, 160)
           \/ TooLong(bag.location, 30) \/ TooLong(bag.url, 100)
      [] name \in {"follow_user", "unfollow_user"} -> ~Supplied(bag.username)
      [] name \in {"list_followers", "list_following"} -> OutOfRange(bag.count, 1, 200)
      [] name = "create_list" ->
           ~Supplied(bag.name) \/ TooLong(bag.name, 25) \/ TooLong(bag.description, 100)
      [] name = "get_list_info" -> ~Supplied(bag.listId)
      [] OTHER -> FALSE

\* C1: an invocation of a tool with an argument bag that violates the tool's
\* input schema (a required field missing, a number out of range, a string too
\* long) ends with the invalid-parameters error thrown, and it has issued no
\* remote call.
C1_InvalidInputRejectedBeforeRemoteCall ==
    (Started /\ args.given /\ Violates(tool, args.bag)) => RejectedWith("InvalidParams")

\* a list name of 30 characters has been rejected
C1_Witness ==
    /\ tool = "create_list"
    /\ args.given
    /\ args.bag.name = Str(30)
    /\ RejectedWith("InvalidParams")

\* C2: an invocation whose tool name is none of the eleven registered names ends
\* with the method-not-found error thrown, and it has issued no remote call.
C2_UnknownToolRejected ==
    (Started /\ tool \notin {"post_tweet", "search_tweets", "get_profile",
                             "update_profile", "follow_user", "unfollow_user",
                             "list_followers", "list_following", "create_list",
                             "get_list_info", "get_user_lists"})
        => RejectedWith("MethodNotFound")

\* an unregistered name has been rejected
C2_Witness == tool = "delete_tweet" /\ RejectedWith("MethodNotFound")

\* C3 as stated: post_tweet reaches the adapter exactly when text is a string of
\* 1 to 280 characters, and is rejected as invalid input otherwise.
C3_AcceptsExactlyLengths1To280 ==
    (Started /\ tool = "post_tweet" /\ args.given) =>
        LET accepted == args.bag.text.t = "string" /\ 1 <= args.bag.text.n
                        /\ args.bag.text.n <= 280
        IN  /\ ReachedAdapter <=> accepted
            /\ ~accepted => RejectedWith("InvalidParams")

\* C3, amended: post_tweet reaches the adapter exactly when text is a string of at
\* most 280 characters, the empty string included; text that is missing, not a
\* string or longer than 280 characters is rejected as invalid input.
C3_AcceptsExactlyLengthsUpTo280 ==
    (Started /\ tool = "post_tweet" /\ args.given) =>
        LET accepted == StringUpTo(args.bag.text, 280)
        IN  /\ ReachedAdapter <=> accepted
            /\ ~accepted => RejectedWith("InvalidParams")
            /\ accepted => calls[1] = Call("v2.tweet", [text |-> args.bag.text])

\* the empty text has been passed to the remote tweet call
C3_Witness ==
    /\ tool = "post_tweet"
    /\ args.given
    /\ args.bag.text = Str(0)
    /\ ReachedAdapter
    /\ calls[1].api = "v2.tweet"

\* C4: search_tweets reaches the adapter exactly when query is a string and count
\* is a number from 10 to 100; a missing count and a count below 10 or above 100
\* are rejected as invalid input with no remote call.
C4_SearchCountBetween10And100 ==
    (Started /\ tool = "search_tweets" /\ args.given) =>
        LET accepted == args.bag.query.t = "string" /\ NumberIn(args.bag.count, 10, 100)
        IN  /\ ReachedAdapter <=> accepted
            /\ ~accepted => RejectedWith("InvalidParams")
            /\ accepted => calls[1].params.count = args.bag.count

\* a search with count 100 has reached the remote search call
C4_Witness ==
    /\ tool = "search_tweets"
    /\ args.given
    /\ args.bag.count = Num(100)
    /\ ReachedAdapter
    /\ calls[1].api = "v2.search"

\* the count of every followers or following call the invocation has issued
ListingCounts ==
    {calls[i].params.count : i \in {j \in 1..Len(calls) :
                                      calls[j].api \in {"v2.followers", "v2.following"}}}

C6_UpdateProfileNeedsOneValidField ==
    (Started /\ tool = "update_profile" /\ args.given) =>
        LET bag  == args.bag
            some == \E k \in {"name", "description", "location", "url"} : Supplied(bag[k])
            each == /\ Supplied(bag.name) => StringUpTo(bag.name, 50)
                    /\ Supplied(bag.description) => StringUpTo(bag.description, 160)
                    /\ Supplied(bag.location) => StringUpTo(bag.location, 30)
                    /\ Supplied(bag.url) => (StringUpTo(bag.url, 100) /\ bag.url.b)
        IN  /\ ReachedAdapter <=> (some /\ each)
            /\ ~(some /\ each) => RejectedWith("InvalidParams")
            /\ ~some => <<"", "custom">> \in outcome.error.issues

\* a bag holding an unrecognised key only has been rejected
C6_Witness ==
    /\ tool = "update_profile"
    /\ args.given
    /\ Supplied(args.bag.extra)
    /\ \A k \in {"name", "description", "location", "url"} : ~Supplied(args.bag[k])
    /\ RejectedWith("InvalidParams")

\* C7: create_list rejects a missing name, a name longer than 25 characters and a
\* description longer than 100 characters with no remote call; when it reaches
\* the adapter, the remote create call carries private = false if the flag was
\* omitted, and private = true only if the caller passed true.
C7_CreateListBoundsAndPrivateDefault ==
    (Started /\ tool = "create_list" /\ args.given) =>
        LET bag == args.bag
        IN  /\ (~Supplied(bag.name) \/ TooLong(bag.name, 25)
                  \/ TooLong(bag.description, 100)) => RejectedWith("InvalidParams")
            /\ ReachedAdapter =>
                   /\ calls[1].api = "v2.createList"
                   /\ locals.private = calls[1].params.private
                   /\ ~Supplied(bag.private) => calls[1].params.private = Bool(FALSE)
                   /\ calls[1].params.private = Bool(TRUE) => bag.private = Bool(TRUE)

\* a list has been created remotely with the private flag omitted by the caller
C7_Witness ==
    /\ tool = "create_list"
    /\ args.given
    /\ ~Supplied(args.bag.private)
    /\ ReachedAdapter
    /\ calls[1].params.private = Bool(FALSE)

\* the replies received to the calls of the given client method
RepliesTo(api) ==
    {replies[i] : i \in {j \in 1..Len(replies) : calls[j].api = api}}

\* C8: follow_user returns a success response only if the remote follow call
\* answered with the following flag true; once the follow call has answered
\* without confirming (flag false or absent) the invocation has reported a
\* failure, and its text does not hold 'Successfully followed'.
C8_FollowSucceedsOnlyIfConfirmed ==
    (Started /\ tool = "follow_user") =>
        /\ Succeeded => \E r \in RepliesTo("v2.follow") : r.ok /\ r.following = Bool(TRUE)
        /\ (\E r \in RepliesTo("v2.follow") : r.ok /\ r.following # Bool(TRUE)) =>
               /\ ReportedFailure
               /\ ~Shows("Successfully followed @")
        /\ Shows("Successfully followed @") => Succeeded

\* the follow call answered without the following flag and a failure was reported
C8_Witness ==
    /\ tool = "follow_user"
    /\ \E r \in RepliesTo("v2.follow") : r.ok /\ r.following = Undefined
    /\ ReportedFailure
    /\ outcome.text = <<Lit("Twitter API error: "), Lit("Failed to follow user")>>

IsRemoteRateLimit(error) ==
    error.code = 88 \/ (Len(error.errors) > 0 /\ error.errors[1].code = 88)

\* C10: for every tool, once a remote call of the invocation has failed with the
\* rate-limit code 88 (at the top level of the error or in the first entry of its
\* errors list; the handle resolution inside follow_user included), the
\* invocation has returned the text of the rate-limit notice and has thrown
\* nothing.
C10_RateLimitReturnsNotice ==
    (\E i \in 1..Len(replies) : ~replies[i].ok /\ IsRemoteRateLimit(replies[i].error)) =>
        /\ pc = "done"
        /\ outcome.kind = "return"
        /\ Shows("Rate limit exceeded. Please wait a moment before trying again.")

\* the handle resolution of follow_user failed with code 88 in the errors list
\* only, and the notice was returned
C10_Witness ==
    /\ tool = "follow_user"
    /\ Len(replies) = 1
    /\ calls[1].api = "v2.userByUsername"
    /\ ~replies[1].ok
    /\ replies[1].error.code = 401
    /\ Len(replies[1].error.errors) > 0
    /\ replies[1].error.errors[1].code = 88
    /\ outcome.kind = "return"
    /\ Shows("Rate limit exceeded. Please wait a moment before trying again.")

\* a remote call of the invocation was rejected
RemoteFailure == \E i \in 1..Len(replies) : ~replies[i].ok

\* the rejected call is the last one: its error
FailedWith == replies[Len(replies)].error

\* C11: every error raised by the adapter is caught by the dispatcher and
\* re-mapped: once a remote call of the invocation was rejected, or an error of
\* the adapter's class reached the dispatcher, the caller has a returned text
\* response flagged as an error (the notice for a rate limit, otherwise
\* 'Twitter API error: ' and the message) and nothing was thrown at the caller.
C11_AdapterErrorReturnedAsErrorResponse ==
    (RemoteFailure \/ thrown.cls = "TwitterError") =>
        /\ ReportedFailure
        /\ outcome.error = NoError
        /\ \/ outcome.text = <<Lit(RateLimitNotice)>>
           \/ outcome.text = <<Lit("Twitter API error: "), Lit(thrown.message)>>

\* get_profile: the remote call was rejected with a plain error and the caller
\* got the error response with its message
C11_Witness ==
    /\ tool = "get_profile"
    /\ RemoteFailure
    /\ FailedWith = ApiError("Request failed", 401, <<>>)
    /\ ReportedFailure
    /\ outcome.text = <<Lit("Twitter API error: "), Lit("Request failed")>>

\* the adapter method resolved: every remote call of the invocation succeeded
AdapterSucceeded == pc = "done" /\ resolved.returned

C13_NoCallAfterFailure ==
    \A i \in 1..Len(replies) :
        ~replies[i].ok =>
            /\ Len(calls) = i
            /\ Len(replies) = i
            /\ pc = "done"
            /\ ReportedFailure

\* follow_user: the follow call was rejected after a successful resolution; no
\* third call was issued
C13_Witness ==
    /\ tool = "follow_user"
    /\ Len(replies) = 2
    /\ replies[1].ok
    /\ ~replies[2].ok
    /\ calls[2].api = "v2.follow"
    /\ Len(calls) = 2
    /\ ReportedFailure

\* the remote error carries an authentication code at its top level or in the
\* first entry of its errors list: that code
AuthCodeOf(error) ==
    IF error.code \in {32, 89, 135, 215, 226} THEN error.code
    ELSE IF Len(error.errors) > 0 /\ error.errors[1].code \in {32, 89, 135, 215, 226}
    THEN error.errors[1].code
    ELSE 0

\* C14 as stated: once a remote call was rejected with an authentication code
\* (at the top level or in the first entry of the errors list, and no rate-limit
\* code beside it), the error that reached the dispatcher carries the message
\* 'Twitter authentication error' and that code, for direct and nested calls.
C14_AuthErrorKeepsMessageAndCode ==
    (RemoteFailure /\ AuthCodeOf(FailedWith) # 0 /\ ~IsRemoteRateLimit(FailedWith)) =>
        /\ thrown.cls = "TwitterError"
        /\ thrown.message = "Twitter authentication error"
        /\ thrown.code = AuthCodeOf(FailedWith)

\* the TwitterError the taxonomy assigns to a remote error
Classified(error) ==
    IF IsRemoteRateLimit(error)
    THEN [message |-> "Twitter rate limit exceeded", code |-> 88]
    ELSE IF AuthCodeOf(error) # 0
    THEN [message |-> "Twitter authentication error", code |-> error.code]
    ELSE [message |-> IF error.message # "" THEN error.message
                      ELSE IF Len(error.errors) > 0 /\ error.errors[1].message # ""
                      THEN error.errors[1].message
                      ELSE "Unknown Twitter API error",
          code |-> IF error.code # 0 THEN error.code
                   ELSE IF Len(error.errors) > 0 THEN error.errors[1].code
                   ELSE 0]

\* C15: once a remote call of any adapter method was rejected, the adapter has
\* returned no result and the error that reached the dispatcher is a
\* TwitterError: the rate-limit one, the authentication one (its message with
\* the top-level code of the remote error), or the generic one with message and
\* code from the top level of the remote error, else from the first entry of
\* its errors list, else 'Unknown Twitter API error' and 0.
C15_FailureReraisedClassified ==
    RemoteFailure =>
        /\ ~resolved.returned
        /\ thrown.cls = "TwitterError"
        /\ thrown.message = Classified(FailedWith).message
        /\ thrown.code = Classified(FailedWith).code

\* unfollow_user: the handle resolution was rejected with an error that has no
\* top-level message or code; both were taken from the first entry of its
\* errors list, through the catch of the helper and the catch of unfollowUser
C15_Witness ==
    /\ tool = "unfollow_user"
    /\ Len(replies) = 1
    /\ ~replies[1].ok
    /\ replies[1].error = ApiError("", 0, <<[code |-> 50, message |-> "User not found."]>>)
    /\ thrown = TwitterError("User not found.", 50)
    /\ ~resolved.returned

\* a runtime exception was raised inside the invocation: a property of the
\* missing data of a remote payload was read while mapping it, or the formatter
\* threw on the value the adapter returned
MappingException ==
    /\ pc = "done"
    /\ Len(replies) > 0
    /\ replies[Len(replies)].ok
    /\ ~replies[Len(replies)].present
FormattingException == pc = "done" /\ resolved.returned /\ thrown.cls = "TypeError"

\* C16 as stated: a runtime exception raised while mapping a remote response or
\* while formatting reaches the caller as the internal-error signal with the
\* message 'An unexpected error occurred', and the text of the exception is in
\* nothing the caller receives.
C16_RuntimeExceptionIsInternalError ==
    (MappingException \/ FormattingException) =>
        /\ outcome = Thrown(McpError("InternalError", "An unexpected error occurred", {}))
        /\ ~Shows("Cannot read properties of undefined")

\* the reply whose payload the returned objects were mapped from
MappedReply == IF tool = "create_list" THEN replies[1] ELSE replies[Len(replies)]

\* field holds the default when the remote object has nothing for it
Defaulted(remote, field, default) == remote = Undefined => field = default

\* C17 as stated: in what search, get profile, update profile, followers,
\* following, create list, list info and user lists return, each numeric field
\* absent from the remote object is 0 and each string field absent from it is
\* the empty string.
C17_AbsentFieldsDefaulted ==
    resolved.returned =>
        /\ \A i \in 1..Len(resolved.users) :
             LET remote == MappedReply.users[i]
                 user   == resolved.users[i]
             IN  /\ Defaulted(remote.followers_count, user.followersCount, Num(0))
                 /\ Defaulted(remote.following_count, user.followingCount, Num(0))
                 /\ Defaulted(remote.description, user.description, Str(0))
                 /\ Defaulted(remote.profile_image_url, user.profileImageUrl, Str(0))
                 /\ Defaulted(remote.created_at, user.createdAt, Str(0))
        /\ \A i \in 1..Len(resolved.tweets) :
             LET remote == MappedReply.tweets[i]
                 tweet  == resolved.tweets[i]
             IN  /\ Defaulted(remote.retweet_count, tweet.retweetCount, Num(0))
                 /\ Defaulted(remote.reply_count, tweet.replyCount, Num(0))
                 /\ Defaulted(remote.like_count, tweet.likeCount, Num(0))
                 /\ Defaulted(remote.quote_count, tweet.quoteCount, Num(0))
                 /\ Defaulted(remote.created_at, tweet.createdAt, Str(0))
        /\ \A i \in 1..Len(resolved.lists) :
             LET remote == MappedReply.lists[i]
                 list   == resolved.lists[i]
             IN  /\ Defaulted(remote.member_count, list.memberCount, Num(0))
                 /\ Defaulted(remote.follower_count, list.followerCount, Num(0))
                 /\ Defaulted(remote.description, list.description, Str(0))

\* the fields the types declare as required numbers are numbers
CountsPresent ==
    /\ \A i \in 1..Len(resolved.users) :
         /\ resolved.users[i].followersCount # Undefined
         /\ resolved.users[i].followingCount # Undefined
    /\ \A i \in 1..Len(resolved.lists) :
         /\ resolved.lists[i].memberCount # Undefined
         /\ resolved.lists[i].followerCount # Undefined

NoBio(users)          == \A i \in 1..Len(users) : ~Truthy(users[i].description)
NoDescription(lists)  == \A i \in 1..Len(lists) : ~Truthy(lists[i].description)

\* C18: when the adapter returned objects whose optional fields are absent (and
\* whose counts are numbers), formatting does not throw and leaves their lines
\* out: no 'Bio: ' line for a profile without bio (get profile, update profile,
\* follow, unfollow), no description line for followers or following without
\* bio, no 'Description: ' line for a list with empty description in list info
\* and after create list, no description line in the view of the user's lists.
C18_AbsentOptionalFieldsOmitted ==
    (pc = "done" /\ resolved.returned /\ CountsPresent) =>
        /\ Succeeded
        /\ (tool \in {"get_profile", "update_profile", "follow_user", "unfollow_user"}
              /\ NoBio(resolved.users)) => ~Shows("Bio: ")
        /\ (tool \in {"list_followers", "list_following"} /\ NoBio(resolved.users)) =>
              ~Shows("   ")
        /\ (tool \in {"get_list_info", "create_list"} /\ NoDescription(resolved.lists)) =>
              ~Shows("Description: ")
        /\ (tool = "get_user_lists" /\ NoDescription(resolved.lists)) => ~Shows("   ")

\* get_profile of a user whose payload has only id, name and username: the
\* profile was formatted, with the zero counts and without a bio line
C18_Witness ==
    /\ tool = "get_profile"
    /\ Succeeded
    /\ resolved.users[1].description = Undefined
    /\ resolved.users[1].profileImageUrl = Undefined
    /\ Shows("Profile for @")
    /\ Shows("Followers: ")
    /\ ~Shows("Bio: ")

\* part occurs in the text of the response, its segments next to each other
Contains(part) ==
    \E i \in 1..Len(outcome.text) :
        /\ i + Len(part) - 1 <= Len(outcome.text)
        /\ SubSeq(outcome.text, i, i + Len(part) - 1) = part

\* a description as the truncation rule shows it
Condensed(description) ==
    IF description.n > 50 THEN <<Val(Str(47)), Lit("...")>> ELSE <<Val(description)>>

\* every bio of the returned users is on its line as the rule shows it
BiosCondensed ==
    \A i \in 1..Len(resolved.users) :
        Truthy(resolved.users[i].description) =>
            Contains(<<Lit("   ")>> \o Condensed(resolved.users[i].description)
                     \o <<Lit("   Followers: ")>>)

\* C19 as stated: in the followers and following lists and in the numbered list
\* of Twitter lists, a bio or description longer than 50 characters is shown as
\* its first 47 characters and '...', one of 50 or fewer unchanged.
C19_CondensedDescriptionsTruncated ==
    Succeeded =>
        /\ tool \in {"list_followers", "list_following"} => BiosCondensed
        /\ tool = "get_user_lists" =>
             \A i \in 1..Len(resolved.lists) :
                Truthy(resolved.lists[i].description) =>
                    Contains(<<Lit("   ")>> \o Condensed(resolved.lists[i].description)
                             \o <<Lit("   Members: ")>>)

\* C19: in the followers and following lists a bio longer than 50 characters is
\* shown as its first 47 characters and '...', one of 50 or fewer unchanged; in
\* the numbered list of Twitter lists a description is shown unchanged whatever
\* its length.
C19_BiosTruncatedListDescriptionsWhole ==
    Succeeded =>
        /\ tool \in {"list_followers", "list_following"} => BiosCondensed
        /\ tool = "get_user_lists" =>
             \A i \in 1..Len(resolved.lists) :
                Truthy(resolved.lists[i].description) =>
                    Contains(<<Lit("   "), Val(resolved.lists[i].description),
                               Lit("   Members: ")>>)

\* list_followers with a follower whose bio has 51 characters: 47 of them and
\* the ellipsis are shown
C19_Witness ==
    /\ tool = "list_followers"
    /\ Succeeded
    /\ Len(resolved.users) = 1
    /\ resolved.users[1].description = Str(51)
    /\ Contains(<<Lit("   "), Val(Str(47)), Lit("..."), Lit("   Followers: ")>>)

\* C20 as stated: formatSearchResponse does not fail, and the entry of a tweet
\* whose author is not in the user map shows 'Unknown' for the handle in the
\* numbered heading and in the permalink.
C20_MissingAuthorShownAsUnknown ==
    (tool = "search_tweets" /\ pc = "done" /\ resolved.returned) =>
        /\ Succeeded
        /\ (Len(resolved.tweets) > 0 /\ resolved.users = <<>>) =>
             /\ Contains(<<Val(Num(1)), Lit(". @"), Lit("Unknown")>>)
             /\ Contains(<<Lit("[link] https://twitter.com/"), Lit("Unknown"),
                           Lit("/status/")>>)

\* the tool reached its first remote call with username as its argument
OperatesOn(username) ==
    /\ tool \in {"get_profile", "list_followers", "list_following"}
    /\ ReachedAdapter
    /\ args.bag.username = username

\* C23 as stated: get_profile, list_followers and list_following start with the
\* 'who am I' lookup exactly when the username argument is omitted, and with the
\* lookup of the named account for every string supplied as username.
C23_OwnAccountExactlyWhenUsernameOmitted ==
    \A username \in {Undefined} \cup {Str(n) : n \in 0..15} :
        OperatesOn(username) =>
            IF username = Undefined
            THEN calls[1] = Call("v2.me", <<>>)
            ELSE calls[1] = Call("v2.userByUsername", [username |-> username])

\* the remote call that performs the mutation of the tool was answered, and the
\* answer confirms the mutation
MutationConfirmed ==
    CASE tool = "follow_user" ->
           /\ Len(replies) >= 2
           /\ calls[2].api = "v2.follow"
           /\ replies[2].ok /\ replies[2].present /\ replies[2].following = Bool(TRUE)
      [] tool = "unfollow_user" ->
           /\ Len(replies) >= 2
           /\ calls[2].api = "v2.unfollow"
           /\ replies[2].ok /\ replies[2].present /\ replies[2].following = Bool(FALSE)
      [] tool = "create_list" ->
           /\ Len(replies) >= 1
           /\ calls[1].api = "v2.createList"
           /\ replies[1].ok /\ replies[1].present
      [] OTHER -> FALSE

\* C25 as stated: when the invocation of follow_user, unfollow_user or
\* create_list is over and its remote mutation call succeeded and was confirmed,
\* the invocation has reported success (an error response implies that the
\* mutation was not performed).
C25_ErrorImpliesMutationNotPerformed ==
    (pc = "done" /\ MutationConfirmed) => Succeeded

\* the schema the handler of a listed tool validates its arguments with;
\* handleGetUserLists validates nothing
ValidationShape(name) ==
    CASE name = "post_tweet"     -> PostTweetSchema.shape
      [] name = "search_tweets"  -> SearchTweetsSchema.shape
      [] name = "get_profile"    -> GetProfileSchema.shape
      [] name = "update_profile" -> UpdateProfileSchema.shape
      [] name = "follow_user"    -> FollowUserSchema.shape
      [] name = "unfollow_user"  -> UnfollowUserSchema.shape
      [] name = "list_followers" -> ListFollowersSchema.shape
      [] name = "list_following" -> ListFollowingSchema.shape
      [] name = "create_list"    -> CreateListSchema.shape
      [] name = "get_list_info"  -> ListInfoSchema.shape
      [] OTHER -> <<>>

\* the listed property declares every limit and default validation applies
Declares(property, field) ==
    /\ property.type = field.type
    /\ (field.type = "string" /\ field.hasMax) =>
          (property.hasMaxLength /\ property.maxLength = field.max)
    /\ (field.type = "number" /\ field.hasMin) =>
          (property.hasMinimum /\ property.minimum = field.min)
    /\ (field.type = "number" /\ field.hasMax) =>
          (property.hasMaximum /\ property.maximum = field.max)
    /\ field.default # Undefined => property.default = field.default

\* C21 as stated: in the response of the listing, the input schema of each tool
\* lists the fields validation knows, declares for each field every maximum
\* length, numeric range and default that validation applies, and its required
\* fields are the fields validation requires.
C21_ListingDeclaresValidationConstraints ==
    \A i \in 1..Len(listing) :
        LET shape == ValidationShape(listing[i].name)
        IN  /\ DOMAIN listing[i].properties = DOMAIN shape
            /\ \A k \in DOMAIN shape : Declares(listing[i].properties[k], shape[k])
            /\ listing[i].required =
                  {k \in DOMAIN shape :
                      ~shape[k].optional /\ shape[k].default = Undefined}

ListedNames == {listing[i].name : i \in 1..Len(listing)}

\* the invocation was rejected as a call of an unknown tool
RejectedAsUnknown ==
    /\ outcome.kind = "throw"
    /\ outcome.error.cls = "McpError"
    /\ outcome.error.mcp = "MethodNotFound"

\* C22: once the tools were listed, the listed names are the eleven documented
\* ones, each listed once, and an invocation is rejected as a call of an unknown
\* tool exactly when its name is not listed.
C22_ListedToolsAreTheDispatchedTools ==
    listing # <<>> =>
        /\ Len(listing) = 11
        /\ ListedNames =
              {"post_tweet", "search_tweets", "get_profile", "update_profile",
               "follow_user", "unfollow_user", "list_followers", "list_following",
               "create_list", "get_list_info", "get_user_lists"}
        /\ Started => (tool \notin ListedNames <=> RejectedAsUnknown)

\* after a listing, the last listed tool was invoked and succeeded
C22_Witness ==
    /\ listing # <<>>
    /\ listing[Len(listing)].name = "get_user_lists"
    /\ tool = "get_user_lists"
    /\ Succeeded

\* what an invocation of tool name with arguments a has done once its remote
\* calls were answered by rs, when nothing else is in progress
RECURSIVE Alone(_, _, _)
Alone(name, a, rs) ==
    IF rs = <<>> THEN Begun(name, a)
    ELSE Awaited(Alone(name, a, SubSeq(rs, 1, Len(rs) - 1)), rs[Len(rs)])

====
